---- MODULE Spec2Model ----
(***************************************************************************)
(* A model of github3.repos.commit.RepoCommit: the construction of an      *)
(* instance from a JSON payload (_update_attributes), its representation   *)
(* (_repr), its equality, and the five accessors diff, patch, status,      *)
(* statuses and comments with the HTTP requests they issue.                *)
(*                                                                         *)
(* Python values are tagged records, so that None, a number, a text and a  *)
(* dict are all comparable; a dict is a record whose missing keys hold     *)
(* Absent.  A text or a byte string is a sequence.                         *)
(***************************************************************************)
EXTENDS Integers, Sequences, FiniteSets, TLC

VARIABLES commit, self, other, result, iter, number, listing

vars == <<commit, self, other, result, iter, number, listing>>

-----------------------------------------------------------------------------
(* Python values *)

None == [t |-> "None"]

Absent == [t |-> "absent"]

Num(i) == [t |-> "num", i |-> i]

Text(s) == [t |-> "text", s |-> s]

Bytes(b) == [t |-> "bytes", b |-> b]

Dict(d) == [t |-> "dict", d |-> d]

List(l) == [t |-> "list", l |-> l]

Bool(b) == [t |-> "bool", v |-> b]

Obj(cls, json) == [t |-> "obj", cls |-> cls, json |-> json]

\* bool(v) of Python: what `if v:` tests.
Truthy(v) ==
    CASE v.t = "None" -> FALSE
      [] v.t = "num" -> v.i # 0
      [] v.t = "text" -> Len(v.s) > 0
      [] v.t = "bytes" -> Len(v.b) > 0
      [] v.t = "list" -> Len(v.l) > 0
      [] v.t = "dict" -> \E k \in DOMAIN v.d : v.d[k] # Absent
      [] v.t = "bool" -> v.v
      [] OTHER -> TRUE

\* An exception in flight, where a value was expected.
Raise(exc) == [t |-> "raise", exc |-> exc]

\* dict.get(key): the value, or None for a missing key; a value that is no
\* dict has no get.
DictGet(dict, key) ==
    IF dict.t # "dict" THEN Raise("AttributeError")
    ELSE IF key \in DOMAIN dict.d /\ dict.d[key] # Absent THEN dict.d[key]
    ELSE None

\* s[:n] of Python for n >= 0: at most the first n elements.
SliceTo(s, n) == SubSeq(s, 1, IF Len(s) < n THEN Len(s) ELSE n)

-----------------------------------------------------------------------------
(* The JSON payloads a commit is constructed from *)

ShaLong == <<"a", "b", "c", "d", "e", "f", "1", "2", "3">>

ShaOther == <<"a", "b", "c", "d", "e", "f", "1", "9", "9">>

ShaShort == <<"0", "1", "2">>

ShaValues == {Absent, Text(ShaLong), Text(ShaOther), Text(ShaShort)}

StatKeys == {"additions", "deletions", "total"}

StatValue == [additions |-> Num(1), deletions |-> Num(2), total |-> Num(3)]

\* A stats object holding every key but those of missing.
StatsWithout(missing) ==
    Dict([k \in StatKeys |-> IF k \in missing THEN Absent ELSE StatValue[k]])

\* No stats, null, {}, the full object, the objects lacking one key, and a
\* JSON number where the object is expected.
StatsValues ==
    {Absent, None, StatsWithout(StatKeys), StatsWithout({}), Num(7)}
        \cup {StatsWithout({k}) : k \in StatKeys}

CommitValues == {Absent, Dict([message |-> Text(<<"f", "i", "x">>)])}

UserValues == {Absent, Dict([login |-> Text(<<"o", "c", "t", "o">>)])}

FilesValues == {Absent, List(<<Dict([filename |-> Text(<<"R">>)])>>)}

Payloads ==
    [sha : ShaValues, stats : StatsValues, commit : CommitValues,
     author : UserValues, committer : UserValues, files : FilesValues]

\* The payloads of the instance an instance is compared with: every sha, and
\* other fields that differ from one payload to the next.
ComparePayloads ==
    {p \in Payloads :
        /\ p.stats \in {Absent, StatsWithout({})}
        /\ p.author = p.committer
        /\ p.files = Absent}

NoCommit == [t |-> "unbuilt"]

-----------------------------------------------------------------------------
(* The helpers of the base model class *)

\* _get_attribute(data, attribute, fallback): the key's value, or the fallback.
GetAttribute(data, attribute, fallback) ==
    IF data[attribute] = Absent THEN fallback ELSE data[attribute]

\* _class_attribute(data, attribute, cls, owner): cls(value) when there is one.
ClassAttribute(data, attribute, cls) ==
    LET value == GetAttribute(data, attribute, None)
    IN IF Truthy(value) THEN Obj(cls, value) ELSE None

\* getattr(obj, "message", None): ShortCommit exposes its JSON's message.
GetMessage(obj) ==
    IF obj.t = "obj" /\ obj.cls = "ShortCommit"
    THEN DictGet(obj.json, "message")
    ELSE None

CommitUrl == <<"repos", "commits", "sha">>

\* BaseCommit._update_attributes: the commit's own URL.
BaseUpdateAttributes(data) == [api |-> CommitUrl]

\* __eq__ of the base model class: the uniqueness keys are equal.
Eq(a, b) == a.uniq = b.uniq

-----------------------------------------------------------------------------
(* RepoCommit._update_attributes *)

\* A variant that tests stats against None instead of its truth.
StatNotNone(data, stats, key) ==
    IF stats # None THEN DictGet(data.stats, key) ELSE Num(0)

\* self.additions, self.deletions, self.total: 0, or what stats holds.
StatField(data, stats, key) ==
    IF Truthy(stats) THEN DictGet(data.stats, key) ELSE Num(0)

\* A variant without the [] fallback.
FilesNoFallback(data) == GetAttribute(data, "files", None)

\* self.files
Files(data) == GetAttribute(data, "files", List(<<>>))

\* A variant keyed on the abbreviated sha.
UniqShort(sha) == IF sha.t = "text" THEN Text(SliceTo(sha.s, 7)) ELSE sha

\* self._uniq
Uniq(sha) == sha

UpdateAttributes(data) ==
    LET base == BaseUpdateAttributes(data)
        author == ClassAttribute(data, "author", "ShortUser")
        committer == ClassAttribute(data, "committer", "ShortUser")
        commitObj == ClassAttribute(data, "commit", "ShortCommit")
        sha == GetAttribute(data, "sha", None)
        stats == GetAttribute(data, "stats", None)
        additions == StatField(data, stats, "additions")
        deletions == StatField(data, stats, "deletions")
        total == StatField(data, stats, "total")
    IN [t |-> "RepoCommit",
        raised |-> IF additions.t = "raise" THEN additions.exc
                   ELSE IF deletions.t = "raise" THEN deletions.exc
                   ELSE IF total.t = "raise" THEN total.exc
                   ELSE "",
        api |-> base.api,
        author |-> author,
        committer |-> committer,
        commit |-> commitObj,
        sha |-> sha,
        additions |-> additions,
        deletions |-> deletions,
        total |-> total,
        files |-> Files(data),
        uniq |-> Uniq(sha),
        message |-> GetMessage(commitObj)]

\* A variant that formats the whole sha.
ReprFull(obj) ==
    IF obj.sha.t = "text"
    THEN [outcome |-> "return",
          value |-> Text(<<"<Repository Commit [">> \o obj.sha.s \o <<"]>">>)]
    ELSE [outcome |-> "raise", value |-> Text(<<"TypeError">>)]

\* RepoCommit._repr
Repr(obj) ==
    IF obj.sha.t = "text"
    THEN [outcome |-> "return",
          value |-> Text(<<"<Repository Commit [">> \o SliceTo(obj.sha.s, 7) \o <<"]>">>)]
    ELSE [outcome |-> "raise", value |-> Text(<<"TypeError">>)]

-----------------------------------------------------------------------------
(* Operations on the data *)

\* What the last operation did: its outcome and value, the response it read and
\* the requests it issued.
Result(op, outcome, value, response, requests) ==
    [op |-> op, outcome |-> outcome, value |-> value, response |-> response,
     requests |-> requests]

NoResult == Result("none", "none", None, None, <<>>)

NoIter == [t |-> "unbuilt"]

Built(obj) == obj.t = "RepoCommit" /\ obj.raised = ""

\* Before construction.  The server holds one of listings behind the commit's
\* listing urls.
Init(listings) ==
    /\ commit = NoCommit
    /\ self = NoCommit
    /\ other = NoCommit
    /\ result = NoResult
    /\ iter = NoIter
    /\ number = -1
    /\ listing \in listings

\* RepoCommit(data, session)
Construct(data) ==
    /\ self = NoCommit
    /\ commit' = data
    /\ self' = UpdateAttributes(data)
    /\ result' = Result("construct", IF self'.raised = "" THEN "return" ELSE "raise",
                         None, None, <<>>)
    /\ UNCHANGED <<other, iter, number, listing>>

\* self == RepoCommit(data, session)
Compare(data) ==
    /\ Built(self)
    /\ other = NoCommit
    /\ other' = UpdateAttributes(data)
    /\ Built(other')
    /\ result' = Result("eq", "return", Bool(Eq(self, other')), None, <<>>)
    /\ UNCHANGED <<commit, self, iter, number, listing>>

\* repr(self)
CallRepr ==
    /\ Built(self)
    /\ LET r == Repr(self)
       IN result' = Result("repr", r.outcome, r.value, None, <<>>)
    /\ UNCHANGED <<commit, self, other, iter, number, listing>>

-----------------------------------------------------------------------------
(* The HTTP layer and the helpers of the base model class that read it *)

Ok == 200

NotFound == 404

\* The statuses the server answers with: 200, 404, and others of each class.
StatusCodes == {Ok, 204, 304, 403, NotFound, 500}

Contents == {Bytes(<<>>), Bytes(<<"d", "i", "f", "f">>)}

\* The JSON of a response: no body, {} and an object.
JsonBodies ==
    {None, Dict([state |-> Absent]), Dict([state |-> Text(<<"o", "k">>)])}

Response(status, content, json) ==
    [t |-> "response", status |-> status, content |-> content, json |-> json]

\* What the server answers a GET with: any content with any status, and any
\* JSON with 200.
Responses ==
    {Response(Ok, content, json) : content \in Contents, json \in JsonBodies}
        \cup {Response(status, content, None) :
                 status \in StatusCodes \ {Ok}, content \in Contents}

\* A GET the session is asked for.
Request(url, accept, etag) == [url |-> url, accept |-> accept, etag |-> etag]

\* _build_url(segment, base_url=url)
BuildUrl(segment, base) == Append(base, segment)

\* _boolean(response, true_code, false_code)
Boolean(response, trueCode, falseCode) ==
    IF response.status = trueCode THEN Bool(TRUE)
    ELSE IF response.status = falseCode THEN Bool(FALSE)
    ELSE Raise("ClientError")

\* _json(response, status_code)
Json(response, statusCode) ==
    IF response.status = statusCode THEN response.json ELSE Raise("ClientError")

\* _instance_or_null(cls, json)
InstanceOrNull(cls, json) == IF Truthy(json) THEN Obj(cls, json) ELSE None

-----------------------------------------------------------------------------
(* RepoCommit.diff, patch and status *)

\* The url and the Accept header of diff's GET.
DiffRequest(obj) == Request(obj.api, "application/vnd.github.diff", None)

\* A variant with the two status codes exchanged.
DiffReturnSwapped(resp) ==
    LET ok == Boolean(resp, NotFound, Ok)
    IN IF ok.t = "raise" THEN ok
       ELSE IF ok.v THEN resp.content
       ELSE Bytes(<<>>)

\* return resp.content if self._boolean(resp, 200, 404) else b''
DiffReturn(resp) ==
    LET ok == Boolean(resp, Ok, NotFound)
    IN IF ok.t = "raise" THEN ok
       ELSE IF ok.v THEN resp.content
       ELSE Bytes(<<>>)

PatchRequest(obj) == Request(obj.api, "application/vnd.github.patch", None)

PatchReturn(resp) ==
    LET ok == Boolean(resp, Ok, NotFound)
    IN IF ok.t = "raise" THEN ok
       ELSE IF ok.v THEN resp.content
       ELSE Bytes(<<>>)

StatusRequest(obj) == Request(BuildUrl("status", obj.api), "", None)

\* A variant that builds the object from whatever the body holds.
StatusReturnAlways(resp) ==
    LET json == Json(resp, Ok)
    IN IF json.t = "raise" THEN json ELSE Obj("CombinedStatus", json)

\* return self._instance_or_null(status.CombinedStatus, json)
StatusReturn(resp) ==
    LET json == Json(resp, Ok)
    IN IF json.t = "raise" THEN json ELSE InstanceOrNull("CombinedStatus", json)

\* What a call that read resp and computed value leaves as its result.
CallResult(op, value, resp, request) ==
    IF value.t = "raise"
    THEN Result(op, "raise", Text(<<value.exc>>), resp, <<request>>)
    ELSE Result(op, "return", value, resp, <<request>>)

\* self.diff()
Diff ==
    /\ Built(self)
    /\ \E resp \in Responses :
         result' = CallResult("diff", DiffReturn(resp), resp, DiffRequest(self))
    /\ UNCHANGED <<commit, self, other, iter, number, listing>>

\* self.patch()
Patch ==
    /\ Built(self)
    /\ \E resp \in Responses :
         result' = CallResult("patch", PatchReturn(resp), resp, PatchRequest(self))
    /\ UNCHANGED <<commit, self, other, iter, number, listing>>

\* A status() that keeps what it fetched on the instance.
StatusStored ==
    /\ Built(self)
    /\ \E resp \in Responses :
         /\ result' = CallResult("status", StatusReturn(resp), resp, StatusRequest(self))
         /\ self' = [self EXCEPT !.commit = result'.value]
    /\ UNCHANGED <<commit, other, iter, number, listing>>

\* self.status()
Status ==
    /\ Built(self)
    /\ \E resp \in Responses :
         result' = CallResult("status", StatusReturn(resp), resp, StatusRequest(self))
    /\ UNCHANGED <<commit, self, other, iter, number, listing>>

-----------------------------------------------------------------------------
(* The paginated listings and the lazy sequence _iter returns *)

MaxPages == 3

MaxPerPage == 2

MaxNumber == 3

\* A page of a listing: the status of its response and the items it holds.
Page(status, items) == [status |-> status, items |-> items]

PageKinds == {Page(Ok, k) : k \in 0..MaxPerPage} \cup {Page(500, 0)}

\* What the server holds behind a listing url: the pages it serves in turn,
\* each but the last linking to the next.  A failing page ends the listing.
Listings ==
    {l \in UNION {[1..n -> PageKinds] : n \in 1..MaxPages} :
        \A i \in 1..(Len(l) - 1) : l[i].status = Ok}

ETags == {None, Text(<<"W", "1">>)}

\* _iter(count, url, cls, etag=etag): nothing is fetched yet.  fetched counts
\* the pages asked for, pos the items taken from the last of them.
Iter(count, url, cls, etag) ==
    [t |-> "iter", cls |-> cls, url |-> url, etag |-> etag, count |-> count,
     fetched |-> 0, pos |-> 0, yielded |-> 0, state |-> "fresh"]

\* The count is used up.
Exhausted(it) == it.count # -1 /\ it.count <= 0

\* One next() of the sequence over the pages the server holds: it runs to its
\* next item, to its end or to an error, asking for a page whenever the items
\* already fetched are used up.  The sequence as it is left, and the requests
\* issued on the way.
RECURSIVE Resume(_, _, _)
Resume(it, pages, requests) ==
    IF Exhausted(it)
    THEN [it |-> [it EXCEPT !.state = "done"], requests |-> requests]
    ELSE IF it.fetched > 0 /\ it.pos < pages[it.fetched].items
    THEN [it |-> [it EXCEPT !.pos = @ + 1,
                            !.yielded = @ + 1,
                            !.count = IF @ > 0 THEN @ - 1 ELSE @,
                            !.state = "yielded"],
          requests |-> requests]
    ELSE IF it.fetched < Len(pages)
    THEN LET page == pages[it.fetched + 1]
             asked == [it EXCEPT !.fetched = @ + 1, !.pos = 0]
             sent == Append(requests, Request(it.url, "", it.etag))
         IN IF page.status # Ok
            THEN [it |-> [asked EXCEPT !.state = "error"], requests |-> sent]
            ELSE Resume(asked, pages, sent)
    ELSE [it |-> [it EXCEPT !.state = "done"], requests |-> requests]

-----------------------------------------------------------------------------
(* RepoCommit.statuses and comments *)

\* self.statuses()
StatusesIter(obj) == Iter(-1, BuildUrl("statuses", obj.api), "Status", None)

\* A variant that asks for every item whatever the number.
CommentsCountAll(n) == -1

\* int(number)
CommentsCount(n) == n

\* self.comments(number, etag)
CommentsIter(obj, n, etag) ==
    Iter(CommentsCount(n), BuildUrl("comments", obj.api), "RepoComment", etag)

\* A statuses() that fetches the first page at the call.
StatusesEager ==
    /\ Built(self)
    /\ LET r == Resume(StatusesIter(self), listing, <<>>)
       IN /\ iter' = r.it
          /\ result' = Result("statuses", "return", None, None, r.requests)
    /\ number' = -1
    /\ UNCHANGED <<commit, self, other, listing>>

Statuses ==
    /\ Built(self)
    /\ iter' = StatusesIter(self)
    /\ number' = -1
    /\ result' = Result("statuses", "return", None, None, <<>>)
    /\ UNCHANGED <<commit, self, other, listing>>

Comments ==
    /\ Built(self)
    /\ \E n \in (-1)..MaxNumber, etag \in ETags :
         /\ iter' = CommentsIter(self, n, etag)
         /\ number' = n
    /\ result' = Result("comments", "return", None, None, <<>>)
    /\ UNCHANGED <<commit, self, other, listing>>

\* next(sequence)
Advance ==
    /\ iter # NoIter
    /\ iter.state \in {"fresh", "yielded"}
    /\ LET r == Resume(iter, listing, <<>>)
       IN /\ iter' = r.it
          /\ result' =
               IF r.it.state = "yielded"
               THEN Result("next", "return", Obj(r.it.cls, Num(r.it.yielded)), None,
                           r.requests)
               ELSE IF r.it.state = "error"
               THEN Result("next", "raise", Text(<<"ClientError">>), None, r.requests)
               ELSE Result("next", "stop", None, None, r.requests)
    /\ UNCHANGED <<commit, self, other, number, listing>>

\* The payloads of the instance whose accessors are called.
NetPayloads ==
    {p \in Payloads :
        /\ p.sha \in {Absent, Text(ShaLong)}
        /\ p.stats = StatsWithout({})
        /\ p.commit # Absent
        /\ p.author # Absent /\ p.committer # Absent
        /\ p.files # Absent}

\* Three pages of one item, a page of two items before a failing page, and
\* one empty page.
NetListings ==
    {<<Page(Ok, 1), Page(Ok, 1), Page(Ok, 1)>>,
     <<Page(Ok, 2), Page(500, 0)>>,
     <<Page(Ok, 0)>>}

-----------------------------------------------------------------------------
(* The specifications *)

\* Construction, equality and representation, over every payload.
NextData ==
    \/ \E data \in Payloads : Construct(data)
    \/ \E data \in ComparePayloads : Compare(data)
    \/ CallRepr

SpecData == Init({<<>>}) /\ [][NextData]_vars

\* The five accessors and the advance of a sequence.
NextNet ==
    \/ \E data \in NetPayloads : Construct(data)
    \/ Diff
    \/ Patch
    \/ Status
    \/ Statuses
    \/ Comments
    \/ Advance

SpecNet == Init(NetListings) /\ [][NextNet]_vars

\* The lazy sequences, over every listing.
NextIter ==
    \/ \E data \in {p \in NetPayloads : p.sha # Absent} : Construct(data)
    \/ Statuses
    \/ Comments
    \/ Advance

SpecIter == Init(Listings) /\ [][NextIter]_vars

-----------------------------------------------------------------------------
(* The claims *)

Min(a, b) == IF a < b THEN a ELSE b

\* The items of the first k pages of a listing.
RECURSIVE ItemsIn(_, _)
ItemsIn(pages, k) == IF k <= 0 THEN 0 ELSE pages[k].items + ItemsIn(pages, k - 1)

\* The items a listing yields when it is followed to its end or to the page
\* that fails.
RECURSIVE Available(_)
Available(pages) ==
    IF pages = <<>> \/ Head(pages).status # Ok THEN 0
    ELSE Head(pages).items + Available(Tail(pages))

\* C1: diff() and patch() issue one GET to the commit's own url; with status
\* 200 they return the response's content, with 404 the empty byte string,
\* and with any other status they raise.
C1_DiffPatchByStatus ==
    result.op \in {"diff", "patch"} =>
        /\ Len(result.requests) = 1
        /\ result.requests[1].url = CommitUrl
        /\ result.response.status = Ok =>
             result.outcome = "return" /\ result.value = result.response.content
        /\ result.response.status = NotFound =>
             result.outcome = "return" /\ result.value = Bytes(<<>>)
        /\ result.response.status \notin {Ok, NotFound} => result.outcome = "raise"

\* patch() read a 404 that carried content and returned the empty byte string.
C1_Witness ==
    /\ result.op = "patch"
    /\ result.response.status = NotFound
    /\ result.response.content # Bytes(<<>>)
    /\ result.outcome = "return"
    /\ result.value = Bytes(<<>>)

\* C2: status() issues a GET to <commit-url>/status; with status 200 and a
\* truthy JSON body it returns a CombinedStatus of that body, with 200 and a
\* falsy body it returns None, and with any other status it raises.
C2_StatusByResponse ==
    result.op = "status" =>
        /\ result.requests = <<Request(CommitUrl \o <<"status">>, "", None)>>
        /\ (result.response.status = Ok /\ Truthy(result.response.json)) =>
             /\ result.outcome = "return"
             /\ result.value = Obj("CombinedStatus", result.response.json)
        /\ (result.response.status = Ok /\ ~Truthy(result.response.json)) =>
             result.outcome = "return" /\ result.value = None
        /\ result.response.status # Ok => result.outcome = "raise"

\* status() read a 200 whose JSON body is {} and returned None.
C2_Witness ==
    /\ result.op = "status"
    /\ result.response.status = Ok
    /\ result.response.json = Dict([state |-> Absent])
    /\ result.outcome = "return"
    /\ result.value = None

\* C3: a sequence comments(number=n) made never yields more than n >= 0
\* items, has yielded min(n, items available) when it ends, and has asked for
\* no page beyond the one that holds its n-th item (none when n = 0); with
\* n = -1 it ends having asked for every page and yielded every item.
C3_CommentsCount ==
    (iter # NoIter /\ iter.cls = "RepoComment") =>
        /\ number >= 0 => iter.yielded <= number
        /\ (number >= 0 /\ iter.state = "done") =>
             iter.yielded = Min(number, Available(listing))
        /\ (number >= 0 /\ iter.yielded = number) =>
             IF number = 0 THEN iter.fetched = 0
             ELSE ItemsIn(listing, iter.fetched - 1) < number
        /\ (number = -1 /\ iter.state = "done") =>
             iter.yielded = Available(listing) /\ iter.fetched = Len(listing)

\* comments(number=2) over three pages of one item ended after two items and
\* two pages.
C3_Witness ==
    /\ iter # NoIter
    /\ iter.cls = "RepoComment"
    /\ number = 2
    /\ listing = <<Page(Ok, 1), Page(Ok, 1), Page(Ok, 1)>>
    /\ iter.state = "done"
    /\ iter.yielded = 2
    /\ iter.fetched = 2

\* C4: with stats absent or falsy the three counters are 0; with a stats
\* object holding the three keys they are its values.
C4_Stats ==
    Built(self) =>
        /\ (commit.stats = Absent \/ ~Truthy(commit.stats)) =>
             /\ self.additions = Num(0)
             /\ self.deletions = Num(0)
             /\ self.total = Num(0)
        /\ commit.stats = StatsWithout({}) =>
             /\ self.additions = commit.stats.d.additions
             /\ self.deletions = commit.stats.d.deletions
             /\ self.total = commit.stats.d.total

\* An instance constructed from a payload whose stats is {}.
C4_Witness ==
    /\ Built(self)
    /\ commit.stats = StatsWithout(StatKeys)
    /\ self.additions = Num(0)
    /\ self.deletions = Num(0)
    /\ self.total = Num(0)

\* C5: an instance equals another exactly when their shas are equal, two
\* None shas included, and the uniqueness key of each is its sha.
C5_EqualityBySha ==
    other # NoCommit =>
        /\ Eq(self, other) <=> self.sha = other.sha
        /\ self.uniq = self.sha
        /\ other.uniq = other.sha
        /\ result.op = "eq" => result.value = Bool(self.sha = other.sha)

\* Two instances with the same sha and different counters and authors
\* compared equal.
C5_Witness ==
    /\ result.op = "eq"
    /\ result.value = Bool(TRUE)
    /\ self.sha = Text(ShaLong)
    /\ self.additions # other.additions
    /\ self.author # other.author

\* C6: construction from a payload lacking any of its keys does not raise:
\* author, committer, commit and sha are None when missing, files the empty
\* list, the counters 0, and message is the commit's message or None.
C6_MissingKeys ==
    (self # NoCommit /\ commit.stats # Num(7)) =>
        /\ self.raised = ""
        /\ commit.author = Absent => self.author = None
        /\ commit.committer = Absent => self.committer = None
        /\ commit.commit = Absent => self.commit = None /\ self.message = None
        /\ commit.commit # Absent => self.message = commit.commit.d.message
        /\ commit.sha = Absent => self.sha = None
        /\ commit.files = Absent => self.files = List(<<>>)
        /\ commit.stats = Absent =>
             /\ self.additions = Num(0)
             /\ self.deletions = Num(0)
             /\ self.total = Num(0)

\* An instance constructed from the payload that lacks every key.
C6_Witness ==
    /\ Built(self)
    /\ \A k \in DOMAIN commit : commit[k] = Absent
    /\ self.files = List(<<>>)
    /\ self.sha = None
    /\ self.message = None

\* C7: the three counters of a constructed instance are integers.
C7_CountersAreIntegers ==
    Built(self) =>
        /\ self.additions.t = "num"
        /\ self.deletions.t = "num"
        /\ self.total.t = "num"

\* The requests a call issued are what the live sequence asked for.
C8_State ==
    /\ result.op \in {"diff", "patch", "status"} => Len(result.requests) = 1
    /\ result.op \in {"statuses", "comments"} =>
         result.requests = <<>> /\ iter.state = "fresh"
    /\ (iter # NoIter /\ iter.state = "fresh") => iter.fetched = 0

\* An advance asks for pages only when the items fetched are used up, and
\* issues one request for each page it asks for.
C8_Advance ==
    result'.op = "next" =>
        /\ Len(result'.requests) = iter'.fetched - iter.fetched
        /\ result'.requests # <<>> =>
             iter.fetched = 0 \/ iter.pos = listing[iter.fetched].items

\* C8: diff(), patch() and status() issue one request each; statuses() and
\* comments() issue none, and their sequence issues one per page, only when it
\* is advanced past the items it has fetched.
C8_Requests == [][C8_State' /\ C8_Advance]_vars

\* The second item of a sequence came with the request for its page.
C8_Witness ==
    /\ result.op = "next"
    /\ result.outcome = "return"
    /\ iter.yielded = 2
    /\ iter.fetched = 2
    /\ Len(result.requests) = 1

\* C9: no call changes an attribute of the constructed instance.
C9_Immutable == [][self # NoCommit => self' = self]_vars

\* An advance of a sequence of the instance raised.
C9_Witness ==
    /\ Built(self)
    /\ self = UpdateAttributes(commit)
    /\ result.op = "next"
    /\ result.outcome = "raise"

\* The first seven characters of a text.
FirstSeven(s) == [i \in 1..Min(Len(s), 7) |-> s[i]]

\* C10: the representation is '<Repository Commit [' + sha[:7] + ']>' when
\* sha is a text, and computing it raises when sha is None.
C10_Repr ==
    result.op = "repr" =>
        IF self.sha = None
        THEN result.outcome = "raise"
        ELSE /\ result.outcome = "return"
             /\ result.value =
                  Text(<<"<Repository Commit [">> \o FirstSeven(self.sha.s) \o <<"]>">>)
             /\ Len(result.value.s) <= 9

\* The representation of an instance whose sha is None raised.
C10_Witness ==
    /\ result.op = "repr"
    /\ self.sha = None
    /\ commit.sha = Absent
    /\ result.outcome = "raise"

====
